---- MODULE Spec2Model ----
(***************************************************************************)
(* Model of ccdstru2.0.c: the three-role game "Tres, Uno, Dos" on a 4x4    *)
(* grid.  A PositionSet (array + size) is the sequence of its first `size` *)
(* entries; a Position is the pair <<x, y>>.                               *)
(***************************************************************************)
EXTENDS Integers, Sequences, FiniteSets, TLC

VARIABLES game, msg, pc, shown, accepted, probe, res, arg, out

vars == <<game, msg, pc, shown, accepted, probe, res, arg, out>>

GRID_SIZE == 4

\* Bounds of the model.
\* The PositionSet operations are tried on the arrays of at most MaxSetLen
\* distinct entries over the first MaxCells positions of the grid.
MaxSetLen == 3
MaxCells == 5

\* During the first MaxOpen accepted moves of a game the players choose any
\* position of the grid; afterwards, of the positions that are accepted, a
\* placer types the last one listed as available and Dos the first one
\* listed as removable.  Rejected positions are typed at any time.
MaxOpen == 3
\* Out-of-range coordinates typed by the user lie within this margin of the grid.
MaxOff == 1

Coord == 1..GRID_SIZE
Grid == Coord \X Coord

Range(s) == {s[i] : i \in 1..Len(s)}

\* const Position winningPatterns[3][4]
winningPatterns ==
  << << <<1,1>>, <<1,2>>, <<1,3>>, <<1,4>> >>,
     << <<1,4>>, <<2,3>>, <<3,2>>, <<4,1>> >>,
     << <<4,1>>, <<4,2>>, <<4,3>>, <<4,4>> >> >>

\* The fill loop of initializeGame counting from 0 to GRID_SIZE - 1.
InitFZeroBased == [k \in 1..(GRID_SIZE * GRID_SIZE) |->
                     <<(k - 1) \div GRID_SIZE, (k - 1) % GRID_SIZE>>]

\* The x-outer, y-inner fill loop of initializeGame.
InitF == [k \in 1..(GRID_SIZE * GRID_SIZE) |->
            <<((k - 1) \div GRID_SIZE) + 1, ((k - 1) % GRID_SIZE) + 1>>]

\* initializeGame with go set at the start.
initializeGameGoSet ==
  [Uno |-> <<>>, Tres |-> <<>>, F |-> InitF,
   turn |-> TRUE, go |-> TRUE, over |-> FALSE]

\* initializeGame with turn cleared at the start.
initializeGameTurnClear ==
  [Uno |-> <<>>, Tres |-> <<>>, F |-> InitF,
   turn |-> FALSE, go |-> FALSE, over |-> FALSE]

initializeGame ==
  [Uno |-> <<>>, Tres |-> <<>>, F |-> InitF,
   turn |-> TRUE, go |-> FALSE, over |-> FALSE]

positionInSet(pos, set) ==
  \E i \in 1..Len(set) : set[i][1] = pos[1] /\ set[i][2] = pos[2]

\* addPositionToSet without the membership test.
addPositionToSetAlways(pos, set) == Append(set, pos)

addPositionToSet(pos, set) ==
  IF ~positionInSet(pos, set) THEN Append(set, pos) ELSE set

\* removePositionFromSet that copies the last entry but keeps the size.
removePositionFromSetNoShrink(pos, set) ==
  IF \E i \in 1..Len(set) : set[i] = pos
  THEN LET i == CHOOSE k \in 1..Len(set) :
                  set[k] = pos /\ \A j \in 1..(k - 1) : set[j] # pos
       IN [j \in 1..Len(set) |-> IF j = i THEN set[Len(set)] ELSE set[j]]
  ELSE set

\* Swap-with-last removal of the first matching entry.
removePositionFromSet(pos, set) ==
  IF \E i \in 1..Len(set) : set[i] = pos
  THEN LET i == CHOOSE k \in 1..Len(set) :
                  set[k] = pos /\ \A j \in 1..(k - 1) : set[j] # pos
       IN [j \in 1..(Len(set) - 1) |-> IF j = i THEN set[Len(set)] ELSE set[j]]
  ELSE set

\* patternComplete looking at the first three positions of a pattern only.
RECURSIVE patternCompleteThree(_, _, _)
patternCompleteThree(p, i, playerSet) ==
  IF i > 3 THEN TRUE
  ELSE IF ~positionInSet(winningPatterns[p][i], playerSet) THEN FALSE
  ELSE patternCompleteThree(p, i + 1, playerSet)

\* Inner loop of checkWinningPattern: positions i..4 of pattern p are all in the set.
RECURSIVE patternComplete(_, _, _)
patternComplete(p, i, playerSet) ==
  IF i > 4 THEN TRUE
  ELSE IF ~positionInSet(winningPatterns[p][i], playerSet) THEN FALSE
  ELSE patternComplete(p, i + 1, playerSet)

\* Outer loop of checkWinningPattern, from pattern p on.
RECURSIVE patternLoop(_, _)
patternLoop(p, playerSet) ==
  IF p > 3 THEN FALSE
  ELSE IF patternComplete(p, 1, playerSet) THEN TRUE
  ELSE patternLoop(p + 1, playerSet)

\* checkWinningPattern with the main diagonal as a fourth pattern.
checkWinningPatternDiag(playerSet) ==
  \/ patternLoop(1, playerSet)
  \/ \A d \in 1..GRID_SIZE : positionInSet(<<d, d>>, playerSet)

checkWinningPattern(playerSet) == patternLoop(1, playerSet)

\* checkGameOver without the test of Tres.
checkGameOverNoTres(g) ==
  IF checkWinningPattern(g.Uno) THEN [g EXCEPT !.over = TRUE]
  ELSE IF Len(g.F) = 0 THEN [g EXCEPT !.over = TRUE]
  ELSE g

\* checkGameOver without the test of F.size.
checkGameOverNoFull(g) ==
  IF checkWinningPattern(g.Uno) THEN [g EXCEPT !.over = TRUE]
  ELSE IF checkWinningPattern(g.Tres) THEN [g EXCEPT !.over = TRUE]
  ELSE g

\* checkGameOver that takes one free position left for none.
checkGameOverEarly(g) ==
  IF checkWinningPattern(g.Uno) THEN [g EXCEPT !.over = TRUE]
  ELSE IF checkWinningPattern(g.Tres) THEN [g EXCEPT !.over = TRUE]
  ELSE IF Len(g.F) <= 1 THEN [g EXCEPT !.over = TRUE]
  ELSE g

\* checkGameOver without the test of Uno.
checkGameOverNoUno(g) ==
  IF checkWinningPattern(g.Tres) THEN [g EXCEPT !.over = TRUE]
  ELSE IF Len(g.F) = 0 THEN [g EXCEPT !.over = TRUE]
  ELSE g

checkGameOver(g) ==
  IF checkWinningPattern(g.Uno) THEN [g EXCEPT !.over = TRUE]
  ELSE IF checkWinningPattern(g.Tres) THEN [g EXCEPT !.over = TRUE]
  ELSE IF Len(g.F) = 0 THEN [g EXCEPT !.over = TRUE]
  ELSE g

\* nextPlayerMove whose Tres placement leaves the position in F.
nextPlayerMoveKeepFree(g, pos) ==
  IF g.turn /\ g.go /\ positionInSet(pos, g.F)
  THEN [game |-> [g EXCEPT !.Uno = addPositionToSet(pos, g.Uno),
                           !.F = removePositionFromSet(pos, g.F),
                           !.turn = ~g.turn,
                           !.go = ~g.go],
        ret |-> TRUE]
  ELSE IF ~g.turn
  THEN LET inUno == positionInSet(pos, g.Uno)
           inTres == positionInSet(pos, g.Tres)
       IN IF inUno \/ inTres
          THEN LET u == IF inUno THEN removePositionFromSet(pos, g.Uno) ELSE g.Uno
                   t == IF inTres THEN removePositionFromSet(pos, g.Tres) ELSE g.Tres
               IN [game |-> [g EXCEPT !.Uno = u, !.Tres = t,
                                      !.F = addPositionToSet(pos, g.F),
                                      !.turn = ~g.turn],
                   ret |-> TRUE]
          ELSE [game |-> g, ret |-> FALSE]
  ELSE IF g.turn /\ ~g.go /\ positionInSet(pos, g.F)
  THEN [game |-> [g EXCEPT !.Tres = addPositionToSet(pos, g.Tres),
                           !.go = ~g.go],
        ret |-> TRUE]
  ELSE [game |-> g, ret |-> FALSE]

\* nextPlayerMove that toggles turn on a rejected removal too.
nextPlayerMoveRejectToggles(g, pos) ==
  IF g.turn /\ g.go /\ positionInSet(pos, g.F)
  THEN [game |-> [g EXCEPT !.Uno = addPositionToSet(pos, g.Uno),
                           !.F = removePositionFromSet(pos, g.F),
                           !.turn = ~g.turn,
                           !.go = ~g.go],
        ret |-> TRUE]
  ELSE IF ~g.turn
  THEN LET inUno == positionInSet(pos, g.Uno)
           inTres == positionInSet(pos, g.Tres)
       IN IF inUno \/ inTres
          THEN LET u == IF inUno THEN removePositionFromSet(pos, g.Uno) ELSE g.Uno
                   t == IF inTres THEN removePositionFromSet(pos, g.Tres) ELSE g.Tres
               IN [game |-> [g EXCEPT !.Uno = u, !.Tres = t,
                                      !.F = addPositionToSet(pos, g.F),
                                      !.turn = ~g.turn],
                   ret |-> TRUE]
          ELSE [game |-> [g EXCEPT !.turn = ~g.turn], ret |-> FALSE]
  ELSE IF g.turn /\ ~g.go /\ positionInSet(pos, g.F)
  THEN [game |-> [g EXCEPT !.Tres = addPositionToSet(pos, g.Tres),
                           !.F = removePositionFromSet(pos, g.F),
                           !.go = ~g.go],
        ret |-> TRUE]
  ELSE [game |-> g, ret |-> FALSE]

\* nextPlayerMove whose Uno placement leaves go set.
nextPlayerMoveKeepGo(g, pos) ==
  IF g.turn /\ g.go /\ positionInSet(pos, g.F)
  THEN [game |-> [g EXCEPT !.Uno = addPositionToSet(pos, g.Uno),
                           !.F = removePositionFromSet(pos, g.F),
                           !.turn = ~g.turn],
        ret |-> TRUE]
  ELSE IF ~g.turn
  THEN LET inUno == positionInSet(pos, g.Uno)
           inTres == positionInSet(pos, g.Tres)
       IN IF inUno \/ inTres
          THEN LET u == IF inUno THEN removePositionFromSet(pos, g.Uno) ELSE g.Uno
                   t == IF inTres THEN removePositionFromSet(pos, g.Tres) ELSE g.Tres
               IN [game |-> [g EXCEPT !.Uno = u, !.Tres = t,
                                      !.F = addPositionToSet(pos, g.F),
                                      !.turn = ~g.turn],
                   ret |-> TRUE]
          ELSE [game |-> g, ret |-> FALSE]
  ELSE IF g.turn /\ ~g.go /\ positionInSet(pos, g.F)
  THEN [game |-> [g EXCEPT !.Tres = addPositionToSet(pos, g.Tres),
                           !.F = removePositionFromSet(pos, g.F),
                           !.go = ~g.go],
        ret |-> TRUE]
  ELSE [game |-> g, ret |-> FALSE]

\* nextPlayerMove whose Uno placement adds the position to Tres.
nextPlayerMoveUnoToTres(g, pos) ==
  IF g.turn /\ g.go /\ positionInSet(pos, g.F)
  THEN [game |-> [g EXCEPT !.Tres = addPositionToSet(pos, g.Tres),
                           !.F = removePositionFromSet(pos, g.F),
                           !.turn = ~g.turn,
                           !.go = ~g.go],
        ret |-> TRUE]
  ELSE IF ~g.turn
  THEN LET inUno == positionInSet(pos, g.Uno)
           inTres == positionInSet(pos, g.Tres)
       IN IF inUno \/ inTres
          THEN LET u == IF inUno THEN removePositionFromSet(pos, g.Uno) ELSE g.Uno
                   t == IF inTres THEN removePositionFromSet(pos, g.Tres) ELSE g.Tres
               IN [game |-> [g EXCEPT !.Uno = u, !.Tres = t,
                                      !.F = addPositionToSet(pos, g.F),
                                      !.turn = ~g.turn],
                   ret |-> TRUE]
          ELSE [game |-> g, ret |-> FALSE]
  ELSE IF g.turn /\ ~g.go /\ positionInSet(pos, g.F)
  THEN [game |-> [g EXCEPT !.Tres = addPositionToSet(pos, g.Tres),
                           !.F = removePositionFromSet(pos, g.F),
                           !.go = ~g.go],
        ret |-> TRUE]
  ELSE [game |-> g, ret |-> FALSE]

\* nextPlayerMove whose removal does not put the position back into F.
nextPlayerMoveRemovalDrops(g, pos) ==
  IF g.turn /\ g.go /\ positionInSet(pos, g.F)
  THEN [game |-> [g EXCEPT !.Uno = addPositionToSet(pos, g.Uno),
                           !.F = removePositionFromSet(pos, g.F),
                           !.turn = ~g.turn,
                           !.go = ~g.go],
        ret |-> TRUE]
  ELSE IF ~g.turn
  THEN LET inUno == positionInSet(pos, g.Uno)
           inTres == positionInSet(pos, g.Tres)
       IN IF inUno \/ inTres
          THEN LET u == IF inUno THEN removePositionFromSet(pos, g.Uno) ELSE g.Uno
                   t == IF inTres THEN removePositionFromSet(pos, g.Tres) ELSE g.Tres
               IN [game |-> [g EXCEPT !.Uno = u, !.Tres = t,
                                      !.turn = ~g.turn],
                   ret |-> TRUE]
          ELSE [game |-> g, ret |-> FALSE]
  ELSE IF g.turn /\ ~g.go /\ positionInSet(pos, g.F)
  THEN [game |-> [g EXCEPT !.Tres = addPositionToSet(pos, g.Tres),
                           !.F = removePositionFromSet(pos, g.F),
                           !.go = ~g.go],
        ret |-> TRUE]
  ELSE [game |-> g, ret |-> FALSE]

\* Returns the game after the call and the function's return value.
nextPlayerMove(g, pos) ==
  IF g.turn /\ g.go /\ positionInSet(pos, g.F)
  THEN [game |-> [g EXCEPT !.Uno = addPositionToSet(pos, g.Uno),
                           !.F = removePositionFromSet(pos, g.F),
                           !.turn = ~g.turn,
                           !.go = ~g.go],
        ret |-> TRUE]
  ELSE IF ~g.turn
  THEN LET inUno == positionInSet(pos, g.Uno)
           inTres == positionInSet(pos, g.Tres)
       IN IF inUno \/ inTres
          THEN LET u == IF inUno THEN removePositionFromSet(pos, g.Uno) ELSE g.Uno
                   t == IF inTres THEN removePositionFromSet(pos, g.Tres) ELSE g.Tres
               IN [game |-> [g EXCEPT !.Uno = u, !.Tres = t,
                                      !.F = addPositionToSet(pos, g.F),
                                      !.turn = ~g.turn],
                   ret |-> TRUE]
          ELSE [game |-> g, ret |-> FALSE]
  ELSE IF g.turn /\ ~g.go /\ positionInSet(pos, g.F)
  THEN [game |-> [g EXCEPT !.Tres = addPositionToSet(pos, g.Tres),
                           !.F = removePositionFromSet(pos, g.F),
                           !.go = ~g.go],
        ret |-> TRUE]
  ELSE [game |-> g, ret |-> FALSE]

\* displayStatus that tests the exhaustion of F first.
displayStatusFullFirst(g) ==
  IF g.over
  THEN IF Len(g.F) = 0 THEN "Dos Wins"
       ELSE IF checkWinningPattern(g.Uno) THEN "Uno Wins"
       ELSE IF checkWinningPattern(g.Tres) THEN "Tres Wins"
       ELSE ""
  ELSE IF g.turn /\ g.go THEN "Uno's Turn"
       ELSE IF g.turn /\ ~g.go THEN "Tres's Turn"
       ELSE "Dos' Turn"

\* The "Game Status" line printed by displayGame.
displayStatus(g) ==
  IF g.over
  THEN IF checkWinningPattern(g.Uno) THEN "Uno Wins"
       ELSE IF checkWinningPattern(g.Tres) THEN "Tres Wins"
       ELSE IF Len(g.F) = 0 THEN "Dos Wins"
       ELSE ""
  ELSE IF g.turn /\ g.go THEN "Uno's Turn"
       ELSE IF g.turn /\ ~g.go THEN "Tres's Turn"
       ELSE "Dos' Turn"

\* A loop that never looks at over.
LoopCondAlways(g) == TRUE

\* while (!game.over)
LoopCond(g) == ~g.over

\* if (x < 1 || x > GRID_SIZE || y < 1 || y > GRID_SIZE)
OutOfRange(x, y) == x < 1 \/ x > GRID_SIZE \/ y < 1 \/ y > GRID_SIZE

\* The coordinate pairs a user can type that fail the range check.
OutOfRangeInputs ==
  {in \in ((1 - MaxOff)..(GRID_SIZE + MaxOff)) \X ((1 - MaxOff)..(GRID_SIZE + MaxOff)) :
     OutOfRange(in[1], in[2])}

\* The order in which displayGame scans the board (y outer, x inner).
DispOrder == [k \in 1..(GRID_SIZE * GRID_SIZE) |->
                <<((k - 1) % GRID_SIZE) + 1, ((k - 1) \div GRID_SIZE) + 1>>]

\* "Removable positions:" as displayGame lists them.
Removable(g) ==
  SelectSeq(DispOrder, LAMBDA p : positionInSet(p, g.Uno) \/ positionInSet(p, g.Tres))

\* "Available positions:" as displayGame lists them.
Available(g) == g.F

FirstOf(q) == IF Len(q) = 0 THEN {} ELSE {q[1]}
LastOf(q) == IF Len(q) = 0 THEN {} ELSE {q[Len(q)]}

\* The positions a player moves on after n accepted moves.
Typed(g, n) ==
  IF n < MaxOpen THEN Grid
  ELSE IF g.turn THEN LastOf(Available(g)) ELSE FirstOf(Removable(g))

Init ==
  /\ game = initializeGame
  /\ msg = "none"
  /\ pc = "loop"
  /\ shown = "none"
  /\ accepted = 0
  /\ probe = <<>>
  /\ res = FALSE
  /\ arg = <<1, 1>>
  /\ out = <<>>

\* scanf did not read two numbers: "Invalid input!", continue.
BadInput ==
  /\ pc = "loop" /\ LoopCond(game)
  /\ msg' = "input"
  /\ UNCHANGED <<game, pc, shown, accepted, probe, res, arg, out>>

\* Coordinates outside 1..GRID_SIZE: "Invalid position!", continue.
RangeReject ==
  /\ pc = "loop" /\ LoopCond(game)
  /\ OutOfRangeInputs # {}
  /\ msg' = "range"
  /\ UNCHANGED <<game, pc, shown, accepted, probe, res, arg, out>>

\* nextPlayerMove returned false: "Invalid move!", continue.
MoveRejected ==
  /\ pc = "loop" /\ LoopCond(game)
  /\ \E pos \in Grid :
       LET r == nextPlayerMove(game, pos)
       IN /\ ~OutOfRange(pos[1], pos[2])
          /\ ~r.ret
          /\ game' = r.game
          /\ msg' = "invalid"
  /\ UNCHANGED <<pc, shown, accepted, probe, res, arg, out>>

\* nextPlayerMove returned true, then checkGameOver.
MoveAccepted ==
  /\ pc = "loop" /\ LoopCond(game)
  /\ \E pos \in Typed(game, accepted) :
       LET r == nextPlayerMove(game, pos)
       IN /\ ~OutOfRange(pos[1], pos[2])
          /\ r.ret
          /\ game' = checkGameOver(r.game)
          /\ msg' = "ok"
  /\ accepted' = accepted + 1
  /\ UNCHANGED <<pc, shown, probe, res, arg, out>>

\* The loop has ended: displayGame(game) shows the final state.
ShowFinal ==
  /\ pc = "loop" /\ ~LoopCond(game)
  /\ pc' = "done"
  /\ shown' = displayStatus(game)
  /\ UNCHANGED <<game, msg, accepted, probe, res, arg, out>>

Next == BadInput \/ RangeReject \/ MoveRejected \/ MoveAccepted \/ ShowFinal

Spec == Init /\ [][Next]_vars

(***************************************************************************)
(* The move processor driven by a caller other than main: nextPlayerMove   *)
(* followed by checkGameOver, with no test of over before the call.        *)
(***************************************************************************)
InitAPI ==
  /\ game = initializeGame
  /\ msg = "none"
  /\ pc \in {"loop", "api"}
  /\ shown = "none"
  /\ accepted = 0
  /\ probe = <<>>
  /\ res = FALSE
  /\ arg = <<1, 1>>
  /\ out = <<>>

ApiRejected ==
  /\ pc = "api"
  /\ \E pos \in Grid :
       LET r == nextPlayerMove(game, pos)
       IN /\ ~r.ret
          /\ game' = r.game
          /\ msg' = "invalid"
  /\ UNCHANGED <<pc, shown, accepted, probe, res, arg, out>>

ApiAccepted ==
  /\ pc = "api"
  /\ \E pos \in Typed(game, accepted) :
       LET r == nextPlayerMove(game, pos)
       IN /\ r.ret
          /\ game' = checkGameOver(r.game)
          /\ msg' = "ok"
  /\ accepted' = accepted + 1
  /\ UNCHANGED <<pc, shown, probe, res, arg, out>>

NextAPI == Next \/ ApiRejected \/ ApiAccepted

SpecAPI == InitAPI /\ [][NextAPI]_vars

(***************************************************************************)
(* checkWinningPattern applied to every subset of the grid.                *)
(***************************************************************************)
SeqOf(S) == SelectSeq(InitF, LAMBDA p : p \in S)

InitWin ==
  /\ game = initializeGame
  /\ msg = "none"
  /\ pc = "probe"
  /\ shown = "none"
  /\ accepted = 0
  /\ probe \in {SeqOf(S) : S \in SUBSET Grid}
  /\ res = FALSE
  /\ arg = <<1, 1>>
  /\ out = <<>>

Probe ==
  /\ pc = "probe"
  /\ res' = checkWinningPattern(probe)
  /\ pc' = "probed"
  /\ UNCHANGED <<game, msg, shown, accepted, probe, arg, out>>

NextWin == Probe

SpecWin == InitWin /\ [][NextWin]_vars

(***************************************************************************)
(* addPositionToSet and removePositionFromSet applied to a PositionSet     *)
(* (probe) and a position (arg); out is the set after the call.            *)
(***************************************************************************)
Cells == {InitF[k] : k \in 1..MaxCells}

\* The arrays without a repeated entry, the only ones the program builds.
RECURSIVE SetsOfLen(_)
SetsOfLen(n) ==
  IF n = 0 THEN {<<>>}
  ELSE {Append(q, c) : q \in SetsOfLen(n - 1), c \in Cells}

PositionSets ==
  {q \in UNION {SetsOfLen(n) : n \in 0..MaxSetLen} :
     \A i, j \in 1..Len(q) : q[i] = q[j] => i = j}

InitSet ==
  /\ game = initializeGame
  /\ msg = "none"
  /\ pc = "set"
  /\ shown = "none"
  /\ accepted = 0
  /\ probe \in PositionSets
  /\ res = FALSE
  /\ arg \in Cells
  /\ out = <<>>

CallAdd ==
  /\ pc = "set"
  /\ out' = addPositionToSet(arg, probe)
  /\ pc' = "added"
  /\ UNCHANGED <<game, msg, shown, accepted, probe, res, arg>>

CallAddTwice ==
  /\ pc = "set"
  /\ out' = addPositionToSet(arg, addPositionToSet(arg, probe))
  /\ pc' = "addedTwice"
  /\ UNCHANGED <<game, msg, shown, accepted, probe, res, arg>>

CallRemove ==
  /\ pc = "set"
  /\ out' = removePositionFromSet(arg, probe)
  /\ pc' = "removed"
  /\ UNCHANGED <<game, msg, shown, accepted, probe, res, arg>>

NextSet == CallAdd \/ CallAddTwice \/ CallRemove

SpecSet == InitSet /\ [][NextSet]_vars

(***************************************************************************)
(* Properties                                                              *)
(***************************************************************************)
TopRow == {<<1,1>>, <<1,2>>, <<1,3>>, <<1,4>>}
AntiDiag == {<<1,4>>, <<2,3>>, <<3,2>>, <<4,1>>}
RightCol == {<<4,1>>, <<4,2>>, <<4,3>>, <<4,4>>}
MainDiag == {<<1,1>>, <<2,2>>, <<3,3>>, <<4,4>>}

\* Some pattern of the list lies wholly inside the set of positions S.
HasLine(S) == \E p \in 1..Len(winningPatterns) : Range(winningPatterns[p]) \subseteq S

\* The phase a pair of flags encodes: A Tres places, B Uno places, C Dos removes.
PhaseOf(g) == IF ~g.turn THEN "C" ELSE IF g.go THEN "B" ELSE "A"

PhaseCycle == <<"A", "B", "C">>

\* C1: in every reachable state Uno, Tres and F are pairwise disjoint, their
\* sizes add up to 16 and together they hold every cell of the grid.
C1_Partition ==
  /\ Range(game.Uno) \cap Range(game.Tres) = {}
  /\ Range(game.Uno) \cap Range(game.F) = {}
  /\ Range(game.Tres) \cap Range(game.F) = {}
  /\ Len(game.Uno) + Len(game.Tres) + Len(game.F) = 16
  /\ Range(game.Uno) \cup Range(game.Tres) \cup Range(game.F) = Grid

C1_Witness ==
  /\ accepted >= 3
  /\ msg = "invalid"
  /\ Len(game.Uno) >= 1
  /\ Len(game.Tres) >= 1

\* C2: a step in which nextPlayerMove returns false leaves every field of
\* the game (Uno, Tres, F, turn, go, over) as it was.
C2_RejectionKeepsState == [][msg' = "invalid" => game' = game]_vars

C2_Witness == msg = "invalid" /\ ~game.turn /\ accepted >= 2

\* C3: after n accepted moves of a fresh game the phase is the n-th of the
\* cycle A, B, C, A, ...; rejected moves leave the phase where it is.
C3_PhaseCycle == PhaseOf(game) = PhaseCycle[(accepted % 3) + 1]

C3_Witness == accepted = 6 /\ msg = "invalid" /\ PhaseOf(game) = "A"

\* C4: before the first accepted move F lists the 16 grid positions once
\* each, Uno and Tres are empty, turn is set, go and over are not; the first
\* accepted move is a placement into Tres.
C4_InitialState ==
  /\ accepted = 0 =>
       /\ Len(game.F) = 16
       /\ Range(game.F) = Grid
       /\ game.Uno = <<>>
       /\ game.Tres = <<>>
       /\ game.turn = TRUE
       /\ game.go = FALSE
       /\ game.over = FALSE
  /\ accepted = 1 => Len(game.Tres) = 1 /\ Len(game.Uno) = 0 /\ Len(game.F) = 15

C4_Witness == accepted = 1 /\ msg = "ok" /\ Len(game.Tres) = 1

\* C5: over is set exactly when Uno holds a winning pattern, or Tres holds
\* one, or F is empty.
C5_OverIffTerminal ==
  game.over <=> (\/ HasLine(Range(game.Uno))
                 \/ HasLine(Range(game.Tres))
                 \/ Len(game.F) = 0)

C5_Witness == game.over /\ HasLine(Range(game.Tres)) /\ Len(game.F) > 0

\* C6 (as amended): over, once set, stays set under every caller, and under
\* main's loop no step changes the game once over is set.
C6_LoopStopsAfterOver ==
  [][game.over => (game'.over /\ (pc = "loop" => game' = game))]_vars

C6_Witness == pc = "done" /\ game.over

\* C6 (as stated): every call of nextPlayerMove on a game with over set is
\* rejected and leaves the game unchanged.
C6_Original == [][game.over => (game' = game /\ accepted' = accepted)]_vars

\* C7: checkWinningPattern(S) holds exactly when some pattern of the list
\* lies wholly in S; it holds for the top row and fails for the top row with
\* any one cell taken out.
C7_WinDetection ==
  pc = "probed" =>
    /\ res <=> HasLine(Range(probe))
    /\ Range(probe) = TopRow => res
    /\ (\E c \in TopRow : Range(probe) = TopRow \ {c}) => ~res

C7_Witness == pc = "probed" /\ Range(probe) = TopRow /\ res

\* C8 (as amended): the list has three patterns, top row, anti-diagonal and
\* right column; a set that holds the main diagonal is a winning set only
\* when it also holds one of these three.
C8_ThreePatterns ==
  /\ Len(winningPatterns) = 3
  /\ {Range(winningPatterns[p]) : p \in 1..Len(winningPatterns)}
       = {TopRow, AntiDiag, RightCol}
  /\ (pc = "probed" /\ MainDiag \subseteq Range(probe)) =>
       (res <=> \/ TopRow \subseteq Range(probe)
                \/ AntiDiag \subseteq Range(probe)
                \/ RightCol \subseteq Range(probe))

C8_Witness == pc = "probed" /\ Range(probe) = MainDiag /\ ~res

\* C8 (as stated): a set that holds all of (1,1),(2,2),(3,3),(4,4) is
\* detected as a winning set.
C8_Original == (pc = "probed" /\ MainDiag \subseteq Range(probe)) => res

\* C9: when F is empty and neither Uno nor Tres holds a winning pattern,
\* over is set and the outcome displayed at the end is "Dos Wins".
C9_Exhaustion ==
  (/\ Len(game.F) = 0
   /\ ~HasLine(Range(game.Uno))
   /\ ~HasLine(Range(game.Tres))) =>
    /\ game.over
    /\ ~checkWinningPattern(game.Uno)
    /\ ~checkWinningPattern(game.Tres)
    /\ pc = "done" => shown = "Dos Wins"

C9_Witness ==
  /\ pc = "done"
  /\ shown = "Dos Wins"
  /\ Len(game.F) = 0
  /\ Len(game.Uno) + Len(game.Tres) = 16

\* C10: the outcome displayed at the end is exactly one of the three, chosen
\* in the order Uno line, Tres line, exhaustion; a line on a full board is
\* reported as the line win.
C10_OutcomePriority ==
  pc = "done" =>
    /\ shown \in {"Uno Wins", "Tres Wins", "Dos Wins"}
    /\ HasLine(Range(game.Uno)) => shown = "Uno Wins"
    /\ (~HasLine(Range(game.Uno)) /\ HasLine(Range(game.Tres))) => shown = "Tres Wins"
    /\ shown = "Dos Wins" =>
         (Len(game.F) = 0 /\ ~HasLine(Range(game.Uno)) /\ ~HasLine(Range(game.Tres)))

C10_Witness ==
  /\ pc = "done"
  /\ Len(game.F) = 0
  /\ HasLine(Range(game.Uno))
  /\ shown = "Uno Wins"

\* The positions of all three sets lie on the grid.
InGrid(g) == Range(g.Uno) \cup Range(g.Tres) \cup Range(g.F) \subseteq Grid

\* C11: an out-of-range input is rejected in whatever phase it is typed and
\* leaves the game unchanged; no position outside the grid is ever in Uno,
\* Tres or F.
C11_RangeCheck ==
  [][/\ InGrid(game)
     /\ InGrid(game')
     /\ msg' = "range" => (game' = game /\ accepted' = accepted)]_vars

C11_Witness == msg = "range" /\ PhaseOf(game) = "C" /\ accepted >= 2

\* C12: an accepted move in phase A moves exactly the chosen free position
\* from F to Tres and leaves Uno alone; in phase B it moves it from F to Uno
\* and leaves Tres alone; the phase advances in the same step.
C12_PlacementEffect ==
  [][(accepted' = accepted + 1 /\ PhaseOf(game) \in {"A", "B"}) =>
       \E p \in Range(game.F) :
         /\ Range(game'.F) = Range(game.F) \ {p}
         /\ Len(game'.F) = Len(game.F) - 1
         /\ PhaseOf(game) = "A" =>
              /\ game'.Tres = Append(game.Tres, p)
              /\ game'.Uno = game.Uno
              /\ PhaseOf(game') = "B"
         /\ PhaseOf(game) = "B" =>
              /\ game'.Uno = Append(game.Uno, p)
              /\ game'.Tres = game.Tres
              /\ PhaseOf(game') = "C"]_vars

C12_Witness ==
  /\ accepted = 5
  /\ msg = "ok"
  /\ PhaseOf(game) = "C"
  /\ Len(game.Uno) >= 1
  /\ Len(game.Tres) >= 1

\* C13 (as amended): an accepted phase-B move clears turn and clears go as
\* well; go stays clear throughout phase C, so that the removal leads to
\* phase A.
C13_GoClearedAfterB ==
  [][/\ (accepted' = accepted + 1 /\ PhaseOf(game) = "B") =>
          (game'.turn = FALSE /\ game'.go = FALSE)
     /\ ~game.turn => ~game.go
     /\ ~game'.turn => ~game'.go]_vars

C13_Witness == msg = "invalid" /\ ~game.turn /\ ~game.go /\ accepted = 2

\* C13 (as stated): an accepted phase-B move clears turn and leaves go set;
\* go stays set throughout phase C.
C13_Original ==
  [][/\ (accepted' = accepted + 1 /\ PhaseOf(game) = "B") =>
          (game'.turn = FALSE /\ game'.go = TRUE)
     /\ ~game'.turn => game'.go]_vars

\* C14: in phase C a position is accepted exactly when it is in Uno or in
\* Tres; the accepted removal takes it out of the one set that holds it,
\* appends it to F, leaves the other set alone and leads to phase A; a
\* rejected position leaves the game in phase C.
C14_RemovalEffect ==
  [][PhaseOf(game) = "C" =>
       /\ accepted' = accepted + 1 =>
            /\ \A pos \in Grid :
                 LET r == nextPlayerMove(game, pos)
                 IN /\ r.ret <=> pos \in Range(game.Uno) \cup Range(game.Tres)
                    /\ pos \in Range(game.F) => (~r.ret /\ r.game = game)
            /\ \E p \in Range(game.Uno) \cup Range(game.Tres) :
                 /\ game'.F = Append(game.F, p)
                 /\ p \in Range(game.Uno) =>
                      /\ Range(game'.Uno) = Range(game.Uno) \ {p}
                      /\ Len(game'.Uno) = Len(game.Uno) - 1
                      /\ game'.Tres = game.Tres
                 /\ p \in Range(game.Tres) =>
                      /\ Range(game'.Tres) = Range(game.Tres) \ {p}
                      /\ Len(game'.Tres) = Len(game.Tres) - 1
                      /\ game'.Uno = game.Uno
                 /\ game'.turn = TRUE
                 /\ PhaseOf(game') = "A"
       /\ msg' = "invalid" => (game' = game /\ PhaseOf(game') = "C")]_vars

C14_Witness ==
  /\ accepted = 6
  /\ msg = "ok"
  /\ PhaseOf(game) = "A"
  /\ Len(game.F) = 14

\* No position occurs twice among the entries of the array.
Distinct(q) == \A i, j \in 1..Len(q) : q[i] = q[j] => i = j

\* C15: in every reachable state the entries of Uno, of Tres and of F are
\* pairwise distinct.
C15_NoDuplicates ==
  /\ Distinct(game.Uno)
  /\ Distinct(game.Tres)
  /\ Distinct(game.F)

C15_Witness ==
  /\ accepted >= 9
  /\ Len(game.Uno) >= 2
  /\ Len(game.Tres) >= 2
  /\ game.F[1] # InitF[1]

\* C16: adding a position the set already holds leaves the set as it is,
\* adding twice gives what adding once gives, removing a position the set
\* does not hold leaves it as it is, and removing one it holds gives the
\* set without that position, one entry shorter.
C16_SetNoOps ==
  /\ (pc = "added" /\ arg \in Range(probe)) => out = probe
  /\ (pc = "added" /\ arg \notin Range(probe)) => out = Append(probe, arg)
  /\ pc = "addedTwice" =>
       out = (IF arg \in Range(probe) THEN probe ELSE Append(probe, arg))
  /\ (pc = "removed" /\ arg \notin Range(probe)) => out = probe
  /\ (pc = "removed" /\ arg \in Range(probe)) =>
       /\ Range(out) = Range(probe) \ {arg}
       /\ Len(out) = Len(probe) - 1

C16_Witness ==
  /\ pc = "removed"
  /\ Len(probe) = 3
  /\ probe[1] = arg
  /\ out = <<probe[3], probe[2]>>

\* The longest game: 14 cycles of three moves and two more placements.
LongestGame == 3 * 14 + 2

\* C17: a game has at most 44 accepted moves: the number of occupied cells
\* after n accepted moves is n \div 3 + n % 3, and after the 44th the game
\* is over.
C17_BoundedLength ==
  /\ accepted <= LongestGame
  /\ accepted = LongestGame => game.over
  /\ (GRID_SIZE * GRID_SIZE) - Len(game.F) = (accepted \div 3) + (accepted % 3)

C17_Witness == accepted = 44 /\ game.over /\ Len(game.F) = 0 /\ pc = "loop"

\* C18: while the game is not over some position is accepted: F is not
\* empty in the placement phases and Uno and Tres are not both empty in the
\* removal phase.
C18_NoStuckState ==
  ~game.over =>
    /\ \E pos \in Grid : nextPlayerMove(game, pos).ret
    /\ game.turn => Len(game.F) > 0
    /\ ~game.turn => Len(game.Uno) + Len(game.Tres) > 0

C18_Witness ==
  /\ ~game.over
  /\ PhaseOf(game) = "B"
  /\ Len(game.F) = 1
  /\ msg = "invalid"

\* C19: over is set only by the check that follows an accepted placement:
\* after a phase-A move only by a line of Tres, after a phase-B move only by
\* a line of Uno or by F being empty, and never after a phase-C move.
C19_RemovalNeverEnds ==
  [][/\ (~game.over /\ game'.over) =>
          /\ accepted' = accepted + 1
          /\ PhaseOf(game) \in {"A", "B"}
          /\ PhaseOf(game) = "A" =>
               /\ HasLine(Range(game'.Tres))
               /\ ~HasLine(Range(game'.Uno))
               /\ Len(game'.F) > 0
          /\ PhaseOf(game) = "B" =>
               /\ ~HasLine(Range(game'.Tres))
               /\ HasLine(Range(game'.Uno)) \/ Len(game'.F) = 0
     /\ (accepted' = accepted + 1 /\ PhaseOf(game) = "C") => ~game'.over]_vars

C19_Witness ==
  /\ game.over
  /\ PhaseOf(game) = "B"
  /\ HasLine(Range(game.Tres))
  /\ pc = "loop"
  /\ accepted >= 10

\* The status line with the test of Tres before the test of Uno.
StatusTresFirst(g) ==
  IF HasLine(Range(g.Tres)) THEN "Tres Wins"
  ELSE IF HasLine(Range(g.Uno)) THEN "Uno Wins"
  ELSE IF Len(g.F) = 0 THEN "Dos Wins"
  ELSE ""

\* C20: Uno and Tres never both hold a winning pattern, neither holds one
\* while the game is not over, and the winner displayed does not depend on
\* which of the two is tested first.
C20_OneLineOwner ==
  /\ ~(HasLine(Range(game.Uno)) /\ HasLine(Range(game.Tres)))
  /\ ~game.over => (~HasLine(Range(game.Uno)) /\ ~HasLine(Range(game.Tres)))
  /\ pc = "done" => shown = StatusTresFirst(game)

C20_Witness ==
  /\ pc = "done"
  /\ shown = "Uno Wins"
  /\ Len(game.Tres) >= 3
  /\ Len(game.F) > 0

====
